---------------------------- MODULE Spec2Model ----------------------------
(***************************************************************************)
(* Model of the vault program (Initialize / Deposit / Withdraw) and of the *)
(* part of the hosting runtime its handlers call.                          *)
(*                                                                         *)
(* A u64 is kept at its full width: four 16-bit limbs, least significant   *)
(* first.  Account data is a sequence of bytes; u64::to_le_bytes and       *)
(* u64::from_le_bytes convert between the two.                             *)
(***************************************************************************)
EXTENDS Integers, Sequences, FiniteSets, TLC

(***************************************************************************)
(* Bounds of the exploration.                                              *)
(***************************************************************************)
\* successful program calls explored per behaviour
MaxCalls == 3
\* airdrops (external funding of a wallet) explored per behaviour
MaxAirdrops == 1

(***************************************************************************)
(* 64-bit unsigned arithmetic.                                             *)
(***************************************************************************)
U64Zero == <<0, 0, 0, 0>>
U64One == <<1, 0, 0, 0>>
U64Max == <<65535, 65535, 65535, 65535>>

\* the u64 of a small natural (below 2^31)
ToU64(n) == <<n % 65536, n \div 65536, 0, 0>>

\* x + y limb by limb with carry: <<limbs, carry out>>, for any number of limbs
RECURSIVE LimbAdd(_, _, _, _)
LimbAdd(x, y, i, carry) ==
    IF i > Len(x) THEN <<<<>>, carry>>
    ELSE LET s == x[i] + y[i] + carry
             rest == LimbAdd(x, y, i + 1, s \div 65536)
         IN  <<(<<s % 65536>>) \o rest[1], rest[2]>>

\* x - y limb by limb with borrow: <<limbs, borrow out>>
RECURSIVE LimbSub(_, _, _, _)
LimbSub(x, y, i, borrow) ==
    IF i > Len(x) THEN <<<<>>, borrow>>
    ELSE LET d == x[i] - y[i] - borrow
             rest == LimbSub(x, y, i + 1, IF d < 0 THEN 1 ELSE 0)
         IN  <<(<<(d + 65536) % 65536>>) \o rest[1], rest[2]>>

\* u64 comparison x < y
U64Lt(x, y) == LimbSub(x, y, 1, 0)[2] = 1
\* u64 comparison x >= y
U64Ge(x, y) == ~U64Lt(x, y)

None == [some |-> FALSE]
Some(v) == [some |-> TRUE, val |-> v]

\* bug: u64::wrapping_add in place of checked_add
WrappingAdd(x, y) == Some(LimbAdd(x, y, 1, 0)[1])

\* u64::checked_add
CheckedAdd(x, y) ==
    LET r == LimbAdd(x, y, 1, 0)
    IN  IF r[2] = 1 THEN None ELSE Some(r[1])

\* u64::checked_sub
CheckedSub(x, y) ==
    LET r == LimbSub(x, y, 1, 0)
    IN  IF r[2] = 1 THEN None ELSE Some(r[1])

\* u64::saturating_sub
SaturatingSub(x, y) ==
    LET r == LimbSub(x, y, 1, 0)
    IN  IF r[2] = 1 THEN U64Zero ELSE r[1]

\* u64::to_le_bytes: eight bytes, least significant first
ToLeBytes(x) ==
    [i \in 1..8 |-> IF i % 2 = 1 THEN x[(i + 1) \div 2] % 256
                                 ELSE x[i \div 2] \div 256]

\* bug: the eight bytes are read most significant first
FromBeBytes(b) == [k \in 1..4 |-> b[10 - 2 * k] + 256 * b[9 - 2 * k]]

\* u64::from_le_bytes of an eight-byte slice
FromLeBytes(b) == [k \in 1..4 |-> b[2 * k - 1] + 256 * b[2 * k]]


(***************************************************************************)
(* Addresses, programs and the record layout.                              *)
(***************************************************************************)
\* wallets: addresses with a private key, able to sign a transaction
Wallets == {"A", "B", "C"}
\* bump seeds tried by callers
Bumps == {254, 255}
NoAddress == "none"

\* Address of seeds ("vault", owner, [bump]) under this program, or NoAddress
\* when the candidate falls on the curve.  find_program_address gives A the
\* canonical bump 254, B and C the canonical bump 255.
CreateProgramAddress(owner, bump) ==
    CASE owner = "A" /\ bump = 254 -> "PA254"
      [] owner = "B" /\ bump = 255 -> "PB255"
      [] owner = "C" /\ bump = 255 -> "PC255"
      [] OTHER -> NoAddress

DerivedAddresses ==
    {CreateProgramAddress(o, b) : o \in Wallets, b \in Bumps} \ {NoAddress}
Addresses == Wallets \cup DerivedAddresses

\* the 32 bytes of an address (one distinguishing byte, repeated)
AddressBytes(a) ==
    LET tag == CASE a = "A" -> 65 [] a = "B" -> 66 [] a = "C" -> 67
                 [] a = "PA254" -> 1 [] a = "PB255" -> 2 [] a = "PC255" -> 3
                 [] OTHER -> 0
    IN  [i \in 1..32 |-> tag]

SYSTEM_PROGRAM == "system"
PROGRAM_ID == "vault"

\* "Vault!!!"
VAULT_DISCRIMINATOR == <<86, 97, 117, 108, 116, 33, 33, 33>>
LEN == 48
DISCRIMINATOR_OFFSET == 0
OWNER_OFFSET == 8
AMOUNT_OFFSET == 40

\* data[off .. off + n), with Rust's 0-based offsets
Slice(data, off, n) == SubSeq(data, off + 1, off + n)
\* data[off .. off + len(bytes)).copy_from_slice(bytes)
CopyFromSlice(data, off, bytes) ==
    [i \in 1..Len(data) |->
        IF i > off /\ i <= off + Len(bytes) THEN bytes[i - off] ELSE data[i]]

\* Vault::discriminator, Vault::owner, Vault::amount over the account's bytes
VaultDiscriminator(data) == Slice(data, DISCRIMINATOR_OFFSET, 8)
VaultOwner(data) == Slice(data, OWNER_OFFSET, 32)
VaultAmount(data) == FromLeBytes(Slice(data, AMOUNT_OFFSET, 8))

(***************************************************************************)
(* Results of a call.                                                      *)
(***************************************************************************)
Ok == [ok |-> TRUE, kind |-> "ok", what |-> "ok"]
Err(e) == [ok |-> FALSE, kind |-> "error", what |-> e]
Panic(m) == [ok |-> FALSE, kind |-> "panic", what |-> m]
\* an outcome: the result and the accounts as the handler left them
Out(r, st) == [res |-> r, st |-> st]

(***************************************************************************)
(* The runtime the handlers call into: rent, the System Program and        *)
(* pinocchio_system's account-creation helper.                             *)
(***************************************************************************)
\* Rent::get()?.try_minimum_balance(space) under the default rent
\* (3480 lamports per byte-year, 2 years, 128 bytes of overhead)
MinimumBalance(space) == ToU64((128 + space) * 3480 * 2)

Zeroes(n) == [i \in 1..n |-> 0]
\* AccountView::resize_unchecked
Resize(data, n) == [i \in 1..n |-> IF i <= Len(data) THEN data[i] ELSE 0]

\* bug: the destination is credited and the source is not debited
SystemTransferKeepsSource(st, from, to, lamports, signers) ==
    IF from \notin signers THEN Out(Err("MissingRequiredSignature"), st)
    ELSE IF st[from].data # <<>> THEN Out(Err("InvalidArgument"), st)
    ELSE IF st[from].owner # SYSTEM_PROGRAM
        THEN Out(Err("ExternalAccountLamportSpend"), st)
    ELSE IF U64Lt(st[from].lamports, lamports)
        THEN Out(Err("InsufficientFunds"), st)
    ELSE LET credit == CheckedAdd(st[to].lamports, lamports)
         IN  IF ~credit.some THEN Out(Err("ArithmeticOverflow"), st)
             ELSE Out(Ok, [st EXCEPT ![to].lamports = credit.val])

\* bug: the System Program debits any account whose signature it holds
SystemTransferFromAnyAccount(st, from, to, lamports, signers) ==
    IF from \notin signers THEN Out(Err("MissingRequiredSignature"), st)
    ELSE IF U64Lt(st[from].lamports, lamports)
        THEN Out(Err("InsufficientFunds"), st)
    ELSE LET credit == CheckedAdd(st[to].lamports, lamports)
         IN  IF ~credit.some THEN Out(Err("ArithmeticOverflow"), st)
             ELSE Out(Ok,
                 [st EXCEPT ![from].lamports = CheckedSub(@, lamports).val,
                            ![to].lamports = credit.val])

\* System Program Transfer, invoked by CPI; signers: the addresses that
\* signed the transaction or are derived from the CPI's signer seeds
SystemTransfer(st, from, to, lamports, signers) ==
    IF from \notin signers THEN Out(Err("MissingRequiredSignature"), st)
    ELSE IF st[from].data # <<>> THEN Out(Err("InvalidArgument"), st)
    ELSE IF st[from].owner # SYSTEM_PROGRAM
        THEN Out(Err("ExternalAccountLamportSpend"), st)
    ELSE IF U64Lt(st[from].lamports, lamports)
        THEN Out(Err("InsufficientFunds"), st)
    ELSE LET credit == CheckedAdd(st[to].lamports, lamports)
         IN  IF ~credit.some THEN Out(Err("ArithmeticOverflow"), st)
             ELSE Out(Ok,
                 [st EXCEPT ![from].lamports = CheckedSub(@, lamports).val,
                            ![to].lamports = credit.val])

\* System Program CreateAccount, invoked by CPI
SystemCreateAccount(st, from, to, lamports, space, owner, signers) ==
    IF from \notin signers \/ to \notin signers
        THEN Out(Err("MissingRequiredSignature"), st)
    ELSE IF st[to].lamports # U64Zero \/ st[to].data # <<>>
            \/ st[to].owner # SYSTEM_PROGRAM
        THEN Out(Err("AccountAlreadyInUse"), st)
    ELSE SystemTransfer(
            [st EXCEPT ![to].data = Zeroes(space), ![to].owner = owner],
            from, to, lamports, signers)

\* System Program Assign, invoked by CPI
SystemAssign(st, account, owner, signers) ==
    IF account \notin signers THEN Out(Err("MissingRequiredSignature"), st)
    ELSE IF st[account].owner = owner THEN Out(Ok, st)
    ELSE Out(Ok, [st EXCEPT ![account].owner = owner])

\* pinocchio_system::create_account_with_minimum_balance_signed: creates the
\* account when it holds no lamports; otherwise tops it up to the rent
\* minimum, assigns it to the owner program and resizes it
CreateAccountWithMinimumBalanceSigned(st, account, space, owner, payer, pda, txSigners) ==
    LET lamports == MinimumBalance(space)
        signers == txSigners \cup {pda}
    IN  IF pda = NoAddress THEN Out(Err("InvalidSeeds"), st)
        ELSE IF st[account].lamports = U64Zero
            THEN SystemCreateAccount(st, payer, account, lamports, space, owner, signers)
        ELSE LET required == SaturatingSub(lamports, st[account].lamports)
                 funded == IF required # U64Zero
                           THEN SystemTransfer(st, payer, account, required, txSigners)
                           ELSE Out(Ok, st)
             IN  IF ~funded.res.ok THEN funded
                 ELSE LET assigned == SystemAssign(funded.st, account, owner, signers)
                      IN  IF ~assigned.res.ok THEN assigned
                          ELSE Out(Ok, [assigned.st EXCEPT
                                    ![account].data = Resize(@, space)])

(***************************************************************************)
(* The program.                                                            *)
(***************************************************************************)
\* bug: Withdraw accepts a buffer without its bump byte
UnpackShortWithdraw(data) ==
    IF Len(data) = 0 THEN [ok |-> FALSE]
    ELSE IF data[1] = 0 /\ Len(data) >= 2
        THEN [ok |-> TRUE, tag |-> "Initialize", bump |-> data[2]]
    ELSE IF data[1] = 1 /\ Len(data) >= 9
        THEN [ok |-> TRUE, tag |-> "Deposit",
              amount |-> FromLeBytes(SubSeq(data, 2, 9))]
    ELSE IF data[1] = 2 /\ Len(data) >= 9
        THEN [ok |-> TRUE, tag |-> "Withdraw",
              amount |-> FromLeBytes(SubSeq(data, 2, 9)),
              bump |-> IF Len(data) >= 10 THEN data[10] ELSE 0]
    ELSE [ok |-> FALSE]

\* VaultInstruction::unpack
Unpack(data) ==
    IF Len(data) = 0 THEN [ok |-> FALSE]
    ELSE CASE data[1] = 0 ->
                IF Len(data) < 2 THEN [ok |-> FALSE]
                ELSE [ok |-> TRUE, tag |-> "Initialize", bump |-> data[2]]
           [] data[1] = 1 ->
                IF Len(data) < 9 THEN [ok |-> FALSE]
                ELSE [ok |-> TRUE, tag |-> "Deposit",
                      amount |-> FromLeBytes(SubSeq(data, 2, 9))]
           [] data[1] = 2 ->
                IF Len(data) < 10 THEN [ok |-> FALSE]
                ELSE [ok |-> TRUE, tag |-> "Withdraw",
                      amount |-> FromLeBytes(SubSeq(data, 2, 9)),
                      bump |-> data[10]]
           [] OTHER -> [ok |-> FALSE]

\* bug: the signature is not looked at
IsSignerAlways(account) == TRUE

\* AccountView::is_signer, as the handlers assert it
IsSigner(account) == account.is_signer

\* bug: any controlling program is accepted
OwnedByAnyProgram(account, program) == TRUE

\* AccountView::owned_by, as the handlers assert it
OwnedBy(account, program) == account.owner = program

\* the addresses that signed the transaction
TxSigners(accs) == {accs[i].addr : i \in {j \in 1..Len(accs) : accs[j].is_signer}}

\* bug: the owner is not written
WriteInitialWithoutOwner(data, payer) ==
    CopyFromSlice(
        CopyFromSlice(data, DISCRIMINATOR_OFFSET, VAULT_DISCRIMINATOR),
        AMOUNT_OFFSET, ToLeBytes(U64Zero))

\* the three writes of initialize::handler
WriteInitial(data, payer) ==
    CopyFromSlice(
        CopyFromSlice(
            CopyFromSlice(data, DISCRIMINATOR_OFFSET, VAULT_DISCRIMINATOR),
            OWNER_OFFSET, AddressBytes(payer)),
        AMOUNT_OFFSET, ToLeBytes(U64Zero))

\* initialize::handler
InitializeHandler(st, accs, bump) ==
    IF Len(accs) # 3 THEN Out(Err("NotEnoughAccountKeys"), st)
    ELSE LET payer == accs[1]
             vault == accs[2]
         IN  IF ~IsSigner(payer) THEN Out(Panic("Payer must be signer"), st)
             ELSE LET created == CreateAccountWithMinimumBalanceSigned(
                                    st, vault.addr, LEN, PROGRAM_ID, payer.addr,
                                    CreateProgramAddress(payer.addr, bump),
                                    TxSigners(accs))
                  IN  IF ~created.res.ok THEN created
                      ELSE Out(Ok, [created.st EXCEPT
                              ![vault.addr].data = WriteInitial(@, payer.addr)])

\* bug: the length is not asserted, only the discriminator is compared
FromAccountAnyLength(account) ==
    IF Len(account.data) < 8 THEN Panic("Invalid vault discriminator")
    ELSE IF VaultDiscriminator(account.data) # VAULT_DISCRIMINATOR
        THEN Panic("Invalid vault discriminator")
    ELSE Ok

\* Vault::from_account: the length and discriminator assertions
FromAccount(account) ==
    IF Len(account.data) # LEN THEN Panic("Invalid vault data length")
    ELSE IF VaultDiscriminator(account.data) # VAULT_DISCRIMINATOR
        THEN Panic("Invalid vault discriminator")
    ELSE Ok

\* bug: the stored owner is not compared with the signer
OwnerMatchesAnyone(data, owner) == TRUE

\* vault_state.owner() == owner.address()
OwnerMatches(data, owner) == VaultOwner(data) = AddressBytes(owner)

\* bug: the new amount forgets the stored one
DepositNewAmountOverwrites(current, amount) == Some(amount)

\* deposit::handler: current_amount.checked_add(amount)
DepositNewAmount(current, amount) == CheckedAdd(current, amount)

\* bug: the transfer's error is dropped (no `?`) and the handler carries on
DepositEffectsIgnoresTransferError(st, owner, vault, amount, signers) ==
    LET moved == SystemTransfer(st, owner, vault, amount, signers)
        new == DepositNewAmount(VaultAmount(moved.st[vault].data), amount)
    IN  IF ~new.some THEN Out(Panic("Deposit overflow"), moved.st)
        ELSE Out(Ok, [moved.st EXCEPT ![vault].data =
                CopyFromSlice(@, AMOUNT_OFFSET, ToLeBytes(new.val))])

\* bug: the balance is written before the transfer is attempted
DepositEffectsWritesFirst(st, owner, vault, amount, signers) ==
    LET new == DepositNewAmount(VaultAmount(st[vault].data), amount)
        written == [st EXCEPT ![vault].data =
                       CopyFromSlice(@, AMOUNT_OFFSET, ToLeBytes(new.val))]
        moved == SystemTransfer(written, owner, vault, amount, signers)
    IN  IF ~new.some THEN Out(Panic("Deposit overflow"), st)
        ELSE IF ~moved.res.ok THEN Out(moved.res, written)
        ELSE moved

\* bug: the balance is raised without the lamports being moved
DepositEffectsSkipsTransfer(st, owner, vault, amount, signers) ==
    LET new == DepositNewAmount(VaultAmount(st[vault].data), amount)
    IN  IF ~new.some THEN Out(Panic("Deposit overflow"), st)
        ELSE Out(Ok, [st EXCEPT ![vault].data =
                CopyFromSlice(@, AMOUNT_OFFSET, ToLeBytes(new.val))])

\* bug: the transfer's result is unwrapped, so its error becomes a panic
DepositEffectsUnwrapsTransfer(st, owner, vault, amount, signers) ==
    LET moved == SystemTransfer(st, owner, vault, amount, signers)
    IN  IF ~moved.res.ok THEN Out(Panic("Transfer failed"), moved.st)
        ELSE LET data == moved.st[vault].data
                 new == DepositNewAmount(VaultAmount(data), amount)
             IN  IF ~new.some THEN Out(Panic("Deposit overflow"), moved.st)
                 ELSE Out(Ok, [moved.st EXCEPT ![vault].data =
                         CopyFromSlice(@, AMOUNT_OFFSET, ToLeBytes(new.val))])

\* deposit::handler after its guards: the transfer, then the balance write
DepositEffects(st, owner, vault, amount, signers) ==
    LET moved == SystemTransfer(st, owner, vault, amount, signers)
    IN  IF ~moved.res.ok THEN moved
        ELSE LET data == moved.st[vault].data
                 new == DepositNewAmount(VaultAmount(data), amount)
             IN  IF ~new.some THEN Out(Panic("Deposit overflow"), moved.st)
                 ELSE Out(Ok, [moved.st EXCEPT ![vault].data =
                         CopyFromSlice(@, AMOUNT_OFFSET, ToLeBytes(new.val))])

\* bug: the pattern takes the first three accounts of a longer list
DepositHandlerTakesFirstThree(st, accs, amount) ==
    IF Len(accs) < 3 THEN Out(Err("NotEnoughAccountKeys"), st)
    ELSE LET owner == accs[1]
             vault == accs[2]
         IN  IF ~IsSigner(owner) THEN Out(Panic("Owner must be signer"), st)
             ELSE IF ~OwnedBy(st[vault.addr], PROGRAM_ID)
                 THEN Out(Panic("Vault not owned by this program"), st)
             ELSE IF ~FromAccount(st[vault.addr]).ok
                 THEN Out(FromAccount(st[vault.addr]), st)
             ELSE IF ~OwnerMatches(st[vault.addr].data, owner.addr)
                 THEN Out(Panic("Owner mismatch"), st)
             ELSE DepositEffects(st, owner.addr, vault.addr, amount, TxSigners(accs))

\* bug: the record is decoded before the signer and ownership checks
DepositHandlerReadsFirst(st, accs, amount) ==
    IF Len(accs) # 3 THEN Out(Err("NotEnoughAccountKeys"), st)
    ELSE LET owner == accs[1]
             vault == accs[2]
         IN  IF ~FromAccount(st[vault.addr]).ok
                 THEN Out(FromAccount(st[vault.addr]), st)
             ELSE IF ~OwnerMatches(st[vault.addr].data, owner.addr)
                 THEN Out(Panic("Owner mismatch"), st)
             ELSE IF ~IsSigner(owner) THEN Out(Panic("Owner must be signer"), st)
             ELSE IF ~OwnedBy(st[vault.addr], PROGRAM_ID)
                 THEN Out(Panic("Vault not owned by this program"), st)
             ELSE DepositEffects(st, owner.addr, vault.addr, amount, TxSigners(accs))

\* deposit::handler
DepositHandler(st, accs, amount) ==
    IF Len(accs) # 3 THEN Out(Err("NotEnoughAccountKeys"), st)
    ELSE LET owner == accs[1]
             vault == accs[2]
         IN  IF ~IsSigner(owner) THEN Out(Panic("Owner must be signer"), st)
             ELSE IF ~OwnedBy(st[vault.addr], PROGRAM_ID)
                 THEN Out(Panic("Vault not owned by this program"), st)
             ELSE IF ~FromAccount(st[vault.addr]).ok
                 THEN Out(FromAccount(st[vault.addr]), st)
             ELSE IF ~OwnerMatches(st[vault.addr].data, owner.addr)
                 THEN Out(Panic("Owner mismatch"), st)
             ELSE DepositEffects(st, owner.addr, vault.addr, amount, TxSigners(accs))

\* bug: the whole balance cannot be withdrawn (> in place of >=)
SufficientBalanceStrict(current, amount) == U64Lt(amount, current)

\* bug: the balance check is dropped
SufficientBalanceUnchecked(current, amount) == TRUE

\* withdraw::handler: current_amount >= amount
SufficientBalance(current, amount) == U64Ge(current, amount)

\* bug: the balance field is left as it was
WithdrawNewAmountKeepsCurrent(current, amount) == Some(current)

\* withdraw::handler: current_amount.checked_sub(amount)
WithdrawNewAmount(current, amount) == CheckedSub(current, amount)

\* bug: the balance is written before the lamports are moved
WithdrawHandlerWritesFirst(st, accs, amount, bump) ==
    IF Len(accs) # 3 THEN Out(Err("NotEnoughAccountKeys"), st)
    ELSE LET owner == accs[1]
             vault == accs[2]
         IN  IF ~IsSigner(owner) THEN Out(Panic("Owner must be signer"), st)
             ELSE IF ~OwnedBy(st[vault.addr], PROGRAM_ID)
                 THEN Out(Panic("Vault not owned by this program"), st)
             ELSE IF ~FromAccount(st[vault.addr]).ok
                 THEN Out(FromAccount(st[vault.addr]), st)
             ELSE IF ~OwnerMatches(st[vault.addr].data, owner.addr)
                 THEN Out(Panic("Owner mismatch"), st)
             ELSE LET current == VaultAmount(st[vault.addr].data)
                      debit == CheckedSub(st[vault.addr].lamports, amount)
                      credit == CheckedAdd(st[owner.addr].lamports, amount)
                      new == WithdrawNewAmount(current, amount)
                      written == [st EXCEPT ![vault.addr].data =
                                     CopyFromSlice(@, AMOUNT_OFFSET,
                                                   ToLeBytes(new.val))]
                  IN  IF ~SufficientBalance(current, amount)
                          THEN Out(Panic("Insufficient vault balance"), st)
                      ELSE IF ~new.some
                          THEN Out(Panic("Withdraw underflow"), st)
                      ELSE IF ~debit.some
                          THEN Out(Panic("Vault lamport underflow"), written)
                      ELSE IF ~credit.some
                          THEN Out(Panic("Owner lamport overflow"),
                                   [written EXCEPT
                                      ![vault.addr].lamports = debit.val])
                      ELSE Out(Ok,
                              [written EXCEPT
                                  ![vault.addr].lamports = debit.val,
                                  ![owner.addr].lamports = credit.val])

\* withdraw::handler; the bump is not used
WithdrawHandler(st, accs, amount, bump) ==
    IF Len(accs) # 3 THEN Out(Err("NotEnoughAccountKeys"), st)
    ELSE LET owner == accs[1]
             vault == accs[2]
         IN  IF ~IsSigner(owner) THEN Out(Panic("Owner must be signer"), st)
             ELSE IF ~OwnedBy(st[vault.addr], PROGRAM_ID)
                 THEN Out(Panic("Vault not owned by this program"), st)
             ELSE IF ~FromAccount(st[vault.addr]).ok
                 THEN Out(FromAccount(st[vault.addr]), st)
             ELSE IF ~OwnerMatches(st[vault.addr].data, owner.addr)
                 THEN Out(Panic("Owner mismatch"), st)
             ELSE LET current == VaultAmount(st[vault.addr].data)
                      debit == CheckedSub(st[vault.addr].lamports, amount)
                      credit == CheckedAdd(st[owner.addr].lamports, amount)
                      new == WithdrawNewAmount(current, amount)
                  IN  IF ~SufficientBalance(current, amount)
                          THEN Out(Panic("Insufficient vault balance"), st)
                      ELSE IF ~debit.some
                          THEN Out(Panic("Vault lamport underflow"), st)
                      ELSE IF ~credit.some
                          THEN Out(Panic("Owner lamport overflow"),
                                   [st EXCEPT ![vault.addr].lamports = debit.val])
                      ELSE IF ~new.some
                          THEN Out(Panic("Withdraw underflow"),
                                   [st EXCEPT ![vault.addr].lamports = debit.val,
                                              ![owner.addr].lamports = credit.val])
                      ELSE Out(Ok,
                              [st EXCEPT ![vault.addr].lamports = debit.val,
                                         ![owner.addr].lamports = credit.val,
                                         ![vault.addr].data =
                                            CopyFromSlice(@, AMOUNT_OFFSET,
                                                          ToLeBytes(new.val))])

\* bug: the Deposit and Withdraw arms of the match are crossed
DispatchCrossed(st, ix, accs) ==
    CASE ix.tag = "Initialize" -> InitializeHandler(st, accs, ix.bump)
      [] ix.tag = "Deposit" -> WithdrawHandler(st, accs, ix.amount, 0)
      [] ix.tag = "Withdraw" -> DepositHandler(st, accs, ix.amount)

\* VaultInstruction::process
Dispatch(st, ix, accs) ==
    CASE ix.tag = "Initialize" -> InitializeHandler(st, accs, ix.bump)
      [] ix.tag = "Deposit" -> DepositHandler(st, accs, ix.amount)
      [] ix.tag = "Withdraw" -> WithdrawHandler(st, accs, ix.amount, ix.bump)

\* Processor::process
Process(st, data, accs) ==
    LET ix == Unpack(data)
    IN  IF ~ix.ok THEN Out(Err("InvalidInstructionData"), st)
        ELSE Dispatch(st, ix, accs)

(***************************************************************************)
(* Callers: the instruction builders and the inputs explored.              *)
(***************************************************************************)
\* build_initialize_ix, build_deposit_ix, build_withdraw_ix: the data bytes
BuildInitializeData(bump) == <<0, bump>>
BuildDepositData(amount) == <<1>> \o ToLeBytes(amount)
BuildWithdrawData(amount, bump) == <<2>> \o ToLeBytes(amount) \o <<bump>>

\* the largest amount a record can hold next to its rent reserve
U64Big == CheckedSub(U64Max, MinimumBalance(LEN)).val
Amounts == {U64Zero, U64One, U64Big, U64Max}
AirdropAmounts == {CheckedAdd(MinimumBalance(LEN), ToU64(2)).val, U64Big}

Meta(a, s) == [addr |-> a, is_signer |-> s]
SystemMeta == Meta(SYSTEM_PROGRAM, FALSE)
\* the derived addresses of a wallet
DerivedOf(w) == {CreateProgramAddress(w, b) : b \in Bumps} \ {NoAddress}
\* [payer/owner, record, system program], signed by the payer: the record
\* account is any other address
ThreeAccounts ==
    {<<Meta(p, TRUE), Meta(v, FALSE), SystemMeta>> :
        p \in Wallets, v \in Addresses}
\* the same without the payer's signature, on the payer's own record
UnsignedAccounts ==
    {<<Meta(p, FALSE), Meta(v, FALSE), SystemMeta>> :
        p \in Wallets, v \in DerivedAddresses}
\* too few and too many accounts
WrongLengthAccounts ==
    {<<Meta("A", TRUE), Meta("PA254", FALSE)>>,
     <<Meta("A", TRUE), Meta("PA254", FALSE), SystemMeta, SystemMeta>>}
\* the account lists of Deposit and Withdraw calls
AccountLists ==
    {l \in ThreeAccounts : l[1].addr # l[2].addr}
    \cup {l \in UnsignedAccounts : l[2].addr \in DerivedOf(l[1].addr)}
    \cup WrongLengthAccounts
\* the account lists of Initialize calls: the record account may also be a
\* wallet that signed the transaction
InitializeAccountLists ==
    AccountLists
    \cup {l \in {<<Meta(p, TRUE), Meta(v, TRUE), SystemMeta>> :
                      p \in Wallets, v \in Wallets} : l[1].addr # l[2].addr}
\* the account lists of calls with malformed data: the owner and its record
WellFormedAccountLists ==
    {l \in ThreeAccounts : l[2].addr \in DerivedOf(l[1].addr)}
MalformedData == {<<>>, <<255>>, <<0>>, <<1, 1, 0, 0>>, <<2>> \o ToLeBytes(U64One)}

(***************************************************************************)
(* State.                                                                  *)
(***************************************************************************)
VARIABLES
    accounts,     \* address -> [lamports, owner, data]
    last,         \* the last call: its input, result and the handler's own effects
    nCalls,       \* successful calls so far
    nAirdrops,    \* airdrops so far
    deposited,    \* record -> sum of the amounts deposited since its Initialize
    withdrawn,    \* record -> sum of the amounts withdrawn since its Initialize
    batch         \* calls submitted together: which of them have run so far

vars == <<accounts, last, nCalls, nAirdrops, deposited, withdrawn, batch>>

\* sums of amounts, one limb wider than a u64
Wide(x) == x \o <<0>>
WideZero == Wide(U64Zero)
WideAdd(a, b) == LimbAdd(a, b, 1, 0)[1]

NoCall == [kind |-> "none", data |-> <<>>, accs |-> <<>>, res |-> Ok]
\* no calls have been submitted together
NoBatch == [calls |-> <<>>, accs |-> <<>>, done |-> {}, start |-> U64Zero]

Init ==
    /\ accounts = [a \in Addresses |->
                     [lamports |-> IF a = "A" THEN U64Max ELSE U64Zero,
                      owner |-> SYSTEM_PROGRAM,
                      data |-> <<>>]]
    /\ last = [NoCall EXCEPT !.kind = "none"] @@ [st |-> accounts, pre |-> accounts]
    /\ nCalls = 0
    /\ nAirdrops = 0
    /\ deposited = [a \in Addresses |-> WideZero]
    /\ withdrawn = [a \in Addresses |-> WideZero]
    /\ batch = NoBatch

\* the runtime's all-or-nothing call: a failed call's effects are discarded
Commit(st, out) == IF out.res.ok THEN out.st ELSE st

\* A failed call is explored as the last step of a behaviour: it leaves the
\* accounts as they were (Commit), so the calls that could follow it are the
\* calls explored from the state before it.
Live == last.res.ok

\* process_instruction: one call of the program, run to completion
InvokeWithin(data, accs, max) ==
    LET out == Process(accounts, data, accs)
        ix == Unpack(data)
        v == accs[2].addr
    IN  /\ Live
        /\ nCalls < max
        /\ accounts' = Commit(accounts, out)
        /\ last' = [kind |-> "call", data |-> data, accs |-> accs,
                    res |-> out.res, st |-> out.st, pre |-> accounts]
        /\ nCalls' = IF out.res.ok THEN nCalls + 1 ELSE nCalls
        /\ deposited' =
             IF ~out.res.ok THEN deposited
             ELSE IF ix.tag = "Initialize" THEN [deposited EXCEPT ![v] = WideZero]
             ELSE IF ix.tag = "Deposit"
                 THEN [deposited EXCEPT ![v] = WideAdd(@, Wide(ix.amount))]
             ELSE deposited
        /\ withdrawn' =
             IF ~out.res.ok THEN withdrawn
             ELSE IF ix.tag = "Initialize" THEN [withdrawn EXCEPT ![v] = WideZero]
             ELSE IF ix.tag = "Withdraw"
                 THEN [withdrawn EXCEPT ![v] = WideAdd(@, Wide(ix.amount))]
             ELSE withdrawn
        /\ UNCHANGED nAirdrops

Invoke(data, accs) ==
    /\ InvokeWithin(data, accs, MaxCalls)
    /\ UNCHANGED batch

Initialize == \E bump \in Bumps, accs \in InitializeAccountLists :
    Invoke(BuildInitializeData(bump), accs)

Deposit == \E amount \in Amounts, accs \in AccountLists :
    Invoke(BuildDepositData(amount), accs)

Withdraw == \E amount \in Amounts, bump \in Bumps, accs \in AccountLists :
    Invoke(BuildWithdrawData(amount, bump), accs)

Malformed == \E data \in MalformedData, accs \in WellFormedAccountLists :
    Invoke(data, accs)

\* svm.airdrop: a wallet is funded from outside the program
Airdrop == \E w \in Wallets, amount \in AirdropAmounts :
    /\ Live
    /\ nAirdrops < MaxAirdrops
    /\ accounts[w].owner = SYSTEM_PROGRAM
    /\ accounts[w].data = <<>>
    /\ CheckedAdd(accounts[w].lamports, amount).some
    /\ accounts' = [accounts EXCEPT ![w].lamports = CheckedAdd(@, amount).val]
    /\ last' = [kind |-> "airdrop", data |-> <<>>, accs |-> <<Meta(w, FALSE)>>,
                res |-> Ok, st |-> accounts', pre |-> accounts]
    /\ nAirdrops' = nAirdrops + 1
    /\ UNCHANGED <<nCalls, deposited, withdrawn, batch>>

Next == Initialize \/ Deposit \/ Withdraw \/ Malformed \/ Airdrop

Spec == Init /\ [][Next]_vars

(***************************************************************************)
(* Properties.                                                             *)
(***************************************************************************)
\* an initialized record of this program
IsRecord(st, a) == st[a].owner = PROGRAM_ID /\ FromAccount(st[a]).ok
Balance(st, a) == VaultAmount(st[a].data)

LastIx == Unpack(last.data)
\* the last step was a call of the given instruction with three accounts
LastCall(tag) ==
    /\ last.kind = "call"
    /\ LastIx.ok
    /\ LastIx.tag = tag
    /\ Len(last.accs) = 3
LastOwner == last.accs[1]
LastVault == last.accs[2].addr
\* the call's guards on the signer, the record and its owner all passed
LastGuardsPass ==
    /\ LastOwner.is_signer
    /\ IsRecord(last.pre, LastVault)
    /\ OwnerMatches(last.pre[LastVault].data, LastOwner.addr)

\* C1: after Initialize, the balance field of a record equals the sum of
\* the amounts deposited minus the sum of the amounts withdrawn, exactly.
C1_BalanceIsDepositsMinusWithdrawals ==
    \A v \in Addresses :
        IsRecord(accounts, v) =>
            WideAdd(Wide(Balance(accounts, v)), withdrawn[v]) = deposited[v]

\* a record that took a deposit near 2^64 - 1 and a withdrawal of 1
C1_Witness ==
    \E v \in Addresses :
        /\ IsRecord(accounts, v)
        /\ deposited[v] = Wide(U64Big)
        /\ withdrawn[v] = Wide(U64One)
        /\ Balance(accounts, v) = CheckedSub(U64Big, U64One).val

\* C2: a Withdraw of more than the record's balance fails, with the
\* insufficient-balance failure once the other guards pass, and leaves the
\* record, its lamports and the owner's lamports as they were.
C2_OverdrawFails ==
    (LastCall("Withdraw") /\ IsRecord(last.pre, LastVault)
        /\ U64Lt(Balance(last.pre, LastVault), LastIx.amount))
    => /\ ~last.res.ok
       /\ LastGuardsPass => last.res = Panic("Insufficient vault balance")
       /\ last.st = last.pre
       /\ accounts = last.pre

\* the owner overdraws a record holding a non-zero balance
C2_Witness ==
    /\ LastCall("Withdraw")
    /\ LastGuardsPass
    /\ Balance(last.pre, LastVault) = U64One
    /\ LastIx.amount = U64Big
    /\ last.res = Panic("Insufficient vault balance")

\* C3: a Deposit or Withdraw signed by an identity other than the owner
\* stored in a valid record fails on the owner check and changes nothing.
C3_ForeignSignerFails ==
    ((LastCall("Deposit") \/ LastCall("Withdraw"))
        /\ LastOwner.is_signer
        /\ IsRecord(last.pre, LastVault)
        /\ VaultOwner(last.pre[LastVault].data) # AddressBytes(LastOwner.addr))
    => /\ last.res = Panic("Owner mismatch")
       /\ last.st = last.pre
       /\ accounts = last.pre

\* B, holding lamports, tries to withdraw an amount A's record can pay
C3_Witness ==
    /\ LastCall("Withdraw")
    /\ LastOwner.addr = "B"
    /\ LastOwner.is_signer
    /\ IsRecord(last.pre, LastVault)
    /\ VaultOwner(last.pre[LastVault].data) = AddressBytes("A")
    /\ Balance(last.pre, LastVault) = U64One
    /\ LastIx.amount = U64One
    /\ last.res = Panic("Owner mismatch")

\* C4: a Withdraw from a record at one of the owner's derived addresses,
\* made with a salt that does not derive that address from the owner, fails
\* and changes nothing.
C4_WithdrawNeedsDerivingSalt ==
    (LastCall("Withdraw")
        /\ \E b \in Bumps : CreateProgramAddress(LastOwner.addr, b) = LastVault
        /\ CreateProgramAddress(LastOwner.addr, LastIx.bump) # LastVault)
    => /\ ~last.res.ok
       /\ accounts = last.pre

\* C5 as stated: a Deposit that would take the balance past 2^64 - 1, which
\* the owner can pay for, fails on the handler's own overflow check and
\* changes nothing.
C5_OverflowIsBalanceOverflow ==
    (LastCall("Deposit") /\ LastGuardsPass
        /\ ~CheckedAdd(Balance(last.pre, LastVault), LastIx.amount).some
        /\ U64Ge(last.pre[LastOwner.addr].lamports, LastIx.amount))
    => /\ last.res = Panic("Deposit overflow")
       /\ accounts = last.pre

\* C5 as amended: a Deposit that would take the balance past 2^64 - 1
\* fails and changes nothing; once the guards pass it is the transfer that
\* fails, with an error, and the handler's overflow check is not reached.
C5_OverflowingDepositFailsInTransfer ==
    (LastCall("Deposit") /\ IsRecord(last.pre, LastVault)
        /\ ~CheckedAdd(Balance(last.pre, LastVault), LastIx.amount).some)
    => /\ ~last.res.ok
       /\ last.res # Panic("Deposit overflow")
       /\ LastGuardsPass => last.res.kind = "error"
       /\ last.st = last.pre
       /\ accounts = last.pre

\* the owner holds the amount, and the record's lamports cannot take it
C5_Witness ==
    /\ LastCall("Deposit")
    /\ LastGuardsPass
    /\ ~CheckedAdd(Balance(last.pre, LastVault), LastIx.amount).some
    /\ U64Ge(last.pre[LastOwner.addr].lamports, LastIx.amount)
    /\ last.res = Err("ArithmeticOverflow")

\* C6: an Initialize on a derived address that holds an initialized record
\* with a balance fails, and leaves the record's owner and balance as they
\* were.
C6_InitializeIsCreateOnce ==
    (LastCall("Initialize")
        /\ LastVault \in DerivedAddresses
        /\ IsRecord(last.pre, LastVault)
        /\ Balance(last.pre, LastVault) # U64Zero)
    => /\ ~last.res.ok
       /\ VaultOwner(accounts[LastVault].data) = VaultOwner(last.pre[LastVault].data)
       /\ Balance(accounts, LastVault) = Balance(last.pre, LastVault)

\* C7: Initialize succeeds only at the address derived from the payer and
\* the salt; with any other record account it fails and changes nothing.
C7_InitializeOnlyAtDerivedAddress ==
    (LastCall("Initialize")
        /\ CreateProgramAddress(LastOwner.addr, LastIx.bump) # LastVault)
    => /\ ~last.res.ok
       /\ accounts = last.pre

\* C8: a successful Initialize leaves a 48-byte account of this program
\* holding the discriminator, the payer's address and a zero balance.
C8_InitializeWritesRecord ==
    (LastCall("Initialize") /\ last.res.ok)
    => /\ accounts[LastVault].owner = PROGRAM_ID
       /\ Len(accounts[LastVault].data) = 48
       /\ accounts[LastVault].data =
            VAULT_DISCRIMINATOR \o AddressBytes(LastOwner.addr) \o ToLeBytes(U64Zero)
       /\ VaultOwner(accounts[LastVault].data) = AddressBytes(LastOwner.addr)
       /\ Balance(accounts, LastVault) = U64Zero

\* B has just created its record at its canonical derived address
C8_Witness ==
    /\ LastCall("Initialize")
    /\ last.res.ok
    /\ LastOwner.addr = "B"
    /\ LastVault = "PB255"
    /\ last.pre["PB255"].data = <<>>

\* C9: the balance field of every initialized record equals the record's
\* lamports minus the rent minimum of a 48-byte account.
C9_BalanceIsLamportsMinusReserve ==
    \A v \in Addresses :
        IsRecord(accounts, v) =>
            CheckedAdd(Balance(accounts, v), MinimumBalance(LEN))
                = Some(accounts[v].lamports)

\* C10: a Deposit or Withdraw that fails leaves the data of every account as
\* it was, in the handler's own effects as well as in the committed state.
C10_FailedCallLeavesRecordBytes ==
    (last.kind = "call" /\ LastIx.ok /\ LastIx.tag \in {"Deposit", "Withdraw"}
        /\ ~last.res.ok)
    => \A a \in Addresses :
          /\ last.st[a].data = last.pre[a].data
          /\ accounts[a].data = last.pre[a].data

\* a Withdraw that fails after the handler has debited the record's lamports
C10_Witness ==
    /\ LastCall("Withdraw")
    /\ last.res = Panic("Owner lamport overflow")
    /\ last.st[LastVault].lamports # last.pre[LastVault].lamports
    /\ Balance(last.pre, LastVault) # U64Zero


\* C11: a successful Withdraw(amount) raises the owner's lamports by exactly
\* amount, lowers the record's lamports by exactly amount and lowers the
\* record's balance field by exactly amount.
C11_WithdrawMovesExactlyAmount ==
    LastCall("Withdraw") /\ last.res.ok =>
        /\ CheckedAdd(last.pre[LastOwner.addr].lamports, LastIx.amount)
             = Some(accounts[LastOwner.addr].lamports)
        /\ CheckedSub(last.pre[LastVault].lamports, LastIx.amount)
             = Some(accounts[LastVault].lamports)
        /\ CheckedSub(Balance(last.pre, LastVault), LastIx.amount)
             = Some(Balance(accounts, LastVault))
\* a successful withdrawal of a non-zero amount
C11_Witness ==
    /\ LastCall("Withdraw")
    /\ last.res.ok
    /\ LastIx.amount = U64One
    /\ Balance(last.pre, LastVault) = U64One

\* the discriminator and owner bytes of a record
Identity(st, a) == Slice(st[a].data, DISCRIMINATOR_OFFSET, AMOUNT_OFFSET)

\* C12: no call, successful or failed, changes the discriminator or the owner
\* field of an account that held a record before the call.
C12_IdentityFieldsNeverChange ==
    \A v \in Addresses :
        last.kind = "call" /\ IsRecord(last.pre, v) =>
            Identity(accounts, v) = Identity(last.pre, v)

(***************************************************************************)
(* Decoding: calls whose instruction data ranges over buffers of every     *)
(* length around the three minimum lengths, with known and unknown         *)
(* opcodes, made by an owner on its own record.                            *)
(***************************************************************************)
Opcodes == {0, 1, 2, 3, 255}
Payloads ==
    {<<254, 0, 0, 0, 0, 0, 0, 0, 255, 7, 7>>,
     <<1, 0, 0, 0, 0, 0, 0, 0, 254, 0, 9>>}
Buffers ==
    {<<>>} \cup {<<op>> \o SubSeq(p, 1, n) :
                    op \in Opcodes, p \in Payloads, n \in 0..11}

Decode == \E data \in Buffers, accs \in WellFormedAccountLists :
    Invoke(data, accs)

DecodeNext == Decode

DecodeSpec == Init /\ [][DecodeNext]_vars

\* the minimum length of the instruction data of an opcode
MinimumLength(opcode) ==
    CASE opcode = 0 -> 2 [] opcode = 1 -> 9 [] opcode = 2 -> 10

\* the buffers the decoder has to reject
Undecodable(data) ==
    \/ Len(data) = 0
    \/ data[1] \notin {0, 1, 2}
    \/ Len(data) < MinimumLength(data[1])

\* C13: an empty buffer, an unknown opcode or a buffer shorter than 2, 9 or
\* 10 bytes for Initialize, Deposit or Withdraw fails with
\* InvalidInstructionData, no handler's effect exists and no account changes.
C13_UndecodableFailsUntouched ==
    last.kind = "call" /\ Undecodable(last.data) =>
        /\ ~LastIx.ok
        /\ last.res = Err("InvalidInstructionData")
        /\ last.st = last.pre
        /\ accounts = last.pre
\* a Withdraw buffer one byte short, sent by the owner of an existing record
C13_Witness ==
    /\ last.kind = "call"
    /\ Len(last.data) = 9
    /\ last.data[1] = 2
    /\ Len(last.accs) = 3
    /\ LastGuardsPass

\* C14: a buffer of at least the minimum length decodes to Initialize with
\* byte 1 as salt, to Deposit with the little-endian value of bytes 1..8 as
\* amount, or to Withdraw with that amount and byte 9 as salt; bytes after
\* the minimum length change nothing, and the handler acts on that amount.
C14_DecodedFields ==
    last.kind = "call" /\ ~Undecodable(last.data) =>
        LET d == last.data
            min == MinimumLength(d[1])
        IN  /\ LastIx.ok
            /\ LastIx.tag = CASE d[1] = 0 -> "Initialize"
                              [] d[1] = 1 -> "Deposit"
                              [] d[1] = 2 -> "Withdraw"
            /\ d[1] = 0 => LastIx.bump = d[2]
            /\ d[1] \in {1, 2} => ToLeBytes(LastIx.amount) = SubSeq(d, 2, 9)
            /\ d[1] = 2 => LastIx.bump = d[10]
            /\ LastIx = Unpack(SubSeq(d, 1, min))
            /\ d[1] = 1 /\ last.res.ok /\ Len(last.accs) = 3 =>
                  ToLeBytes(SaturatingSub(Balance(accounts, LastVault),
                                          Balance(last.pre, LastVault)))
                     = SubSeq(d, 2, 9)
\* a successful Withdraw of a non-zero amount whose buffer has trailing bytes
C14_Witness ==
    /\ LastCall("Withdraw")
    /\ last.res.ok
    /\ Len(last.data) = 12
    /\ LastIx.amount # U64Zero

(***************************************************************************)
(* Two owners: A and B making signed, well-formed calls of value 1 on      *)
(* each other's addresses, one successful call deeper than Spec.           *)
(***************************************************************************)
MaxOwnerCalls == 4
Owners == {"A", "B"}
OwnerAccountLists ==
    {l \in InitializeAccountLists :
        /\ Len(l) = 3
        /\ l[1].is_signer
        /\ l[1].addr \in Owners
        /\ \E o \in Owners : l[2].addr \in {o} \cup DerivedOf(o)}

OwnerInitialize == \E bump \in Bumps, accs \in OwnerAccountLists :
    /\ InvokeWithin(BuildInitializeData(bump), accs, MaxOwnerCalls)
    /\ UNCHANGED batch

OwnerDeposit == \E accs \in OwnerAccountLists :
    /\ InvokeWithin(BuildDepositData(U64One), accs, MaxOwnerCalls)
    /\ UNCHANGED batch

OwnerWithdraw == \E bump \in Bumps, accs \in OwnerAccountLists :
    /\ InvokeWithin(BuildWithdrawData(U64One, bump), accs, MaxOwnerCalls)
    /\ UNCHANGED batch

OwnersNext == OwnerInitialize \/ OwnerDeposit \/ OwnerWithdraw

OwnersSpec == Init /\ [][OwnersNext]_vars

\* C15: a call made by one owner on one record account leaves every other
\* account that holds a record of a different owner unchanged, data and
\* lamports.
C15_OtherOwnersRecordUntouched ==
    \A w \in Addresses :
        /\ last.kind = "call"
        /\ Len(last.accs) = 3
        /\ w # LastVault
        /\ IsRecord(last.pre, w)
        /\ ~OwnerMatches(last.pre[w].data, LastOwner.addr)
        => accounts[w] = last.pre[w]

\* the sum or difference of two u64 values does not fit 64 bits
AddOverflows(x, y) == LimbAdd(x, y, 1, 0)[2] = 1
SubUnderflows(x, y) == LimbSub(x, y, 1, 0)[2] = 1

\* C16: no u64 computation of a handler wraps. A Deposit or Withdraw whose
\* balance update, or whose debit or credit of lamports, would overflow or
\* underflow fails; after a successful one the balance field and the lamports
\* are the exact sum or difference.
C16_ArithmeticNeverWraps ==
    LET owner == LastOwner.addr
        amount == LastIx.amount
    IN  /\ LastCall("Deposit") /\ LastGuardsPass
           /\ AddOverflows(Balance(last.pre, LastVault), amount)
           => ~last.res.ok
        /\ LastCall("Deposit") /\ last.res.ok =>
              LimbAdd(Balance(last.pre, LastVault), amount, 1, 0)
                 = <<Balance(accounts, LastVault), 0>>
        /\ LastCall("Withdraw") /\ LastGuardsPass
           /\ \/ SubUnderflows(Balance(last.pre, LastVault), amount)
              \/ SubUnderflows(last.pre[LastVault].lamports, amount)
              \/ AddOverflows(last.pre[owner].lamports, amount)
           => ~last.res.ok /\ accounts = last.pre
        /\ LastCall("Withdraw") /\ last.res.ok =>
              /\ LimbSub(Balance(last.pre, LastVault), amount, 1, 0)
                    = <<Balance(accounts, LastVault), 0>>
              /\ LimbSub(last.pre[LastVault].lamports, amount, 1, 0)
                    = <<accounts[LastVault].lamports, 0>>
              /\ LimbAdd(last.pre[owner].lamports, amount, 1, 0)
                    = <<accounts[owner].lamports, 0>>
\* a Withdraw within the balance whose credit would pass 2^64 - 1
C16_Witness ==
    /\ LastCall("Withdraw")
    /\ LastGuardsPass
    /\ ~SubUnderflows(Balance(last.pre, LastVault), LastIx.amount)
    /\ AddOverflows(last.pre[LastOwner.addr].lamports, LastIx.amount)
    /\ ~last.res.ok

\* The other transfer strategy of Withdraw, after the handler's guards: a
\* System Program Transfer from the record to the owner, signed with the
\* seeds ("vault", owner, bump), then the balance update.
WithdrawByTransfer(st, owner, vault, amount, bump, txSigners) ==
    LET pda == CreateProgramAddress(owner, bump)
        moved == IF pda = NoAddress THEN Out(Err("InvalidSeeds"), st)
                 ELSE SystemTransfer(st, vault, owner, amount,
                                     txSigners \cup {pda})
        new == WithdrawNewAmount(VaultAmount(st[vault].data), amount)
    IN  IF ~SufficientBalance(VaultAmount(st[vault].data), amount)
            THEN Out(Panic("Insufficient vault balance"), st)
        ELSE IF ~moved.res.ok THEN moved
        ELSE IF ~new.some THEN Out(Panic("Withdraw underflow"), moved.st)
        ELSE Out(Ok, [moved.st EXCEPT ![vault].data =
                        CopyFromSlice(@, AMOUNT_OFFSET, ToLeBytes(new.val))])

\* the outcome of the last Withdraw call had it used the other strategy
LastByTransfer ==
    WithdrawByTransfer(last.pre, LastOwner.addr, LastVault, LastIx.amount,
                       LastIx.bump, TxSigners(last.accs))

LamportsMoved(from, to) ==
    /\ CheckedSub(last.pre[from].lamports, LastIx.amount)
          = Some(last.st[from].lamports)
    /\ CheckedAdd(last.pre[to].lamports, LastIx.amount)
          = Some(last.st[to].lamports)
\* the handler of the last call wrote to the record account's data
RecordWritten == last.st[LastVault].data # last.pre[LastVault].data

\* C19: in Deposit and in Withdraw the balance field is written only once
\* the value has moved; a call whose transfer step fails ends without the
\* write, even in the effects the runtime then discards.
C19_WriteOnlyAfterTransfer ==
    LET owner == LastOwner.addr
        amount == LastIx.amount
    IN  /\ LastCall("Deposit") /\ RecordWritten =>
              last.res.ok /\ LamportsMoved(owner, LastVault)
        /\ LastCall("Deposit") /\ LastGuardsPass
           /\ ~SystemTransfer(last.pre, owner, LastVault, amount,
                              TxSigners(last.accs)).res.ok
           => ~last.res.ok /\ ~RecordWritten
        /\ LastCall("Withdraw") /\ RecordWritten =>
              last.res.ok /\ LamportsMoved(LastVault, owner)
        /\ LastCall("Withdraw") /\ LastGuardsPass
           /\ \/ SubUnderflows(last.pre[LastVault].lamports, amount)
              \/ AddOverflows(last.pre[owner].lamports, amount)
           => ~last.res.ok /\ ~RecordWritten
\* a Deposit of a non-zero amount into a record with a balance, whose
\* transfer the System Program refuses
C19_Witness ==
    /\ LastCall("Deposit")
    /\ LastGuardsPass
    /\ last.res.kind = "error"
    /\ LastIx.amount # U64Zero
    /\ Balance(last.pre, LastVault) # U64Zero

\* C20: a Deposit or Withdraw whose first account did not sign, or whose
\* record account is not owned by the program, ends at that guard: its
\* result is the guard's own panic whatever the record account holds, never
\* a result of decoding the account, and nothing is changed.
C20_ChecksBeforeRecordIsRead ==
    LastCall("Deposit") \/ LastCall("Withdraw") =>
        /\ ~LastOwner.is_signer =>
              last.res = Panic("Owner must be signer") /\ last.st = last.pre
        /\ LastOwner.is_signer /\ last.pre[LastVault].owner # PROGRAM_ID =>
              /\ last.res = Panic("Vault not owned by this program")
              /\ last.st = last.pre
        /\ last.res.what \in {"Invalid vault data length",
                              "Invalid vault discriminator", "Owner mismatch",
                              "Insufficient vault balance"} =>
              LastOwner.is_signer /\ last.pre[LastVault].owner = PROGRAM_ID
\* a signed Deposit on an account the program does not own, whose data is
\* not a record
C20_Witness ==
    /\ LastCall("Deposit")
    /\ LastOwner.is_signer
    /\ last.pre[LastVault].owner # PROGRAM_ID
    /\ ~FromAccount(last.pre[LastVault]).ok
    /\ LastIx.amount # U64Zero

\* C21: a Deposit or Withdraw on an account the program does not own, a
\* never-initialized record address included, fails and changes no account;
\* once the owner signed, the failure is the ownership guard's.
C21_ForeignAccountFails ==
    (LastCall("Deposit") \/ LastCall("Withdraw"))
    /\ last.pre[LastVault].owner # PROGRAM_ID
    => /\ ~last.res.ok
       /\ LastOwner.is_signer =>
             last.res = Panic("Vault not owned by this program")
       /\ last.st = last.pre
       /\ accounts = last.pre
\* the owner, holding lamports, withdraws from its own derived address on
\* which Initialize never succeeded
C21_Witness ==
    /\ LastCall("Withdraw")
    /\ LastOwner.is_signer
    /\ LastVault \in DerivedOf(LastOwner.addr)
    /\ last.pre[LastVault].owner = SYSTEM_PROGRAM
    /\ last.pre[LastVault].data = <<>>
    /\ last.pre[LastOwner.addr].lamports # U64Zero
    /\ ~last.res.ok

\* C22: an Initialize, Deposit or Withdraw whose first account did not sign
\* fails on the signer guard and changes no account.
C22_UnsignedCallFails ==
    (LastCall("Initialize") \/ LastCall("Deposit") \/ LastCall("Withdraw"))
    /\ ~LastOwner.is_signer
    => /\ last.res = Panic(IF LastCall("Initialize")
                           THEN "Payer must be signer"
                           ELSE "Owner must be signer")
       /\ last.st = last.pre
       /\ accounts = last.pre
\* an unsigned Withdraw of an amount the record holds, naming the record's
\* owner: the signature is all that is missing
C22_Witness ==
    /\ LastCall("Withdraw")
    /\ ~LastOwner.is_signer
    /\ IsRecord(last.pre, LastVault)
    /\ VaultOwner(last.pre[LastVault].data) = AddressBytes(LastOwner.addr)
    /\ Balance(last.pre, LastVault) = U64One
    /\ LastIx.amount = U64One

(***************************************************************************)
(* Accounts handed to the program from outside: the holder of a wallet's   *)
(* key has the System Program allocate zeroed data for it and assign it to *)
(* the program; the two owners then make their calls as in OwnersSpec.     *)
(***************************************************************************)
AllocateSizes == {0, 47, 48, 49}

\* System Program Allocate and Assign in a transaction the account signs
AllocateAssign == \E w \in Owners, space \in AllocateSizes :
    /\ Live
    /\ accounts[w].owner = SYSTEM_PROGRAM
    /\ accounts[w].data = <<>>
    /\ accounts' = [accounts EXCEPT ![w].data = Zeroes(space),
                                    ![w].owner = PROGRAM_ID]
    /\ last' = [kind |-> "assign", data |-> <<>>, accs |-> <<Meta(w, TRUE)>>,
                res |-> Ok, st |-> accounts', pre |-> accounts]
    /\ UNCHANGED <<nCalls, nAirdrops, deposited, withdrawn, batch>>

AssignedNext == AllocateAssign \/ OwnerInitialize \/ OwnerDeposit \/ OwnerWithdraw

AssignedSpec == Init /\ [][AssignedNext]_vars

\* the account's data is not a record: wrong length or wrong first 8 bytes
NotARecord(account) ==
    \/ Len(account.data) # LEN
    \/ Slice(account.data, 0, 8) # VAULT_DISCRIMINATOR

\* C23: a Deposit or Withdraw on an account whose data is not exactly 48
\* bytes long, or does not start with the discriminator, fails and changes
\* nothing; once the signer and ownership guards pass, a wrong length is
\* reported as such, whatever the first 8 bytes are.
C23_InvalidRecordFails ==
    (LastCall("Deposit") \/ LastCall("Withdraw"))
    /\ NotARecord(last.pre[LastVault])
    => /\ ~last.res.ok
       /\ last.st = last.pre
       /\ accounts = last.pre
       /\ LastOwner.is_signer /\ last.pre[LastVault].owner = PROGRAM_ID =>
             last.res = IF Len(last.pre[LastVault].data) # LEN
                        THEN Panic("Invalid vault data length")
                        ELSE Panic("Invalid vault discriminator")
\* a signed Deposit of 1 on an account of the program holding 48 bytes that
\* do not start with the discriminator
C23_Witness ==
    /\ LastCall("Deposit")
    /\ LastOwner.is_signer
    /\ last.pre[LastVault].owner = PROGRAM_ID
    /\ Len(last.pre[LastVault].data) = LEN
    /\ NotARecord(last.pre[LastVault])
    /\ last.res = Panic("Invalid vault discriminator")

\* C24: a Deposit that passes the guards while the owner holds fewer
\* lamports than the amount ends with the System Program's transfer error,
\* the insufficient-funds one for a plain wallet, and leaves the balance
\* field, the record's lamports and the owner's lamports as they were.
C24_UnfundedDepositFails ==
    LET owner == LastOwner.addr
    IN  (LastCall("Deposit") /\ LastGuardsPass
            /\ U64Lt(last.pre[owner].lamports, LastIx.amount))
        => /\ last.res.kind = "error"
           /\ (last.pre[owner].owner = SYSTEM_PROGRAM
                  /\ last.pre[owner].data = <<>>)
              => last.res = Err("InsufficientFunds")
           /\ Balance(last.st, LastVault) = Balance(last.pre, LastVault)
           /\ last.st[LastVault].lamports = last.pre[LastVault].lamports
           /\ last.st[owner].lamports = last.pre[owner].lamports
           /\ accounts = last.pre
\* an owner that spent its lamports deposits 1 more than it holds
C24_Witness ==
    /\ LastCall("Deposit")
    /\ LastGuardsPass
    /\ U64Lt(last.pre[LastOwner.addr].lamports, LastIx.amount)
    /\ LastIx.amount = U64One
    /\ last.res = Err("InsufficientFunds")

\* C25: every call that fails on a guard of a handler returns a typed error
\* value to its caller, never an abort of the program.
C25_FailuresAreTypedErrors ==
    (LastCall("Initialize") \/ LastCall("Deposit") \/ LastCall("Withdraw"))
    /\ ~last.res.ok
    => last.res.kind = "error"

(***************************************************************************)
(* Calls submitted together: the owner of a record submits a batch of      *)
(* Deposit and Withdraw calls and the runtime, which locks the record for  *)
(* the duration of a call, runs them one at a time in an order it chooses. *)
(***************************************************************************)
MaxPrepareCalls == 2
MaxBatch == 3
MaxBatchCalls == MaxPrepareCalls + MaxBatch
U64Two == ToU64(2)
BatchCalls ==
    {BuildDepositData(U64One), BuildDepositData(U64Two),
     BuildWithdrawData(U64One, 254), BuildWithdrawData(U64Two, 254)}
Batches == UNION {[1..n -> BatchCalls] : n \in 2..MaxBatch}

\* calls made before anything is submitted together
Prepare ==
    \E data \in {BuildInitializeData(b) : b \in Bumps}
                    \cup {BuildDepositData(U64One), BuildDepositData(U64Two)},
       accs \in WellFormedAccountLists :
        /\ batch = NoBatch
        /\ InvokeWithin(data, accs, MaxPrepareCalls)
        /\ UNCHANGED batch

\* the owner of a record submits a batch of calls on it
Submit == \E accs \in WellFormedAccountLists, calls \in Batches :
    /\ batch = NoBatch
    /\ Live
    /\ accounts[accs[2].addr].owner = PROGRAM_ID
    /\ FromAccount(accounts[accs[2].addr]).ok
    /\ OwnerMatches(accounts[accs[2].addr].data, accs[1].addr)
    /\ batch' = [calls |-> calls, accs |-> accs, done |-> {},
                 start |-> VaultAmount(accounts[accs[2].addr].data)]
    /\ UNCHANGED <<accounts, last, nCalls, nAirdrops, deposited, withdrawn>>

\* the runtime runs one of the submitted calls that has not run yet
Serve == \E i \in DOMAIN batch.calls \ batch.done :
    /\ InvokeWithin(batch.calls[i], batch.accs, MaxBatchCalls)
    /\ batch' = [batch EXCEPT !.done = @ \cup {i}]

ConcurrentNext == Prepare \/ Submit \/ Serve

ConcurrentSpec == Init /\ [][ConcurrentNext]_vars

\* the sum of the amounts of the calls of a batch that carry the given tag
RECURSIVE BatchSum(_, _, _)
BatchSum(calls, i, tag) ==
    IF i > Len(calls) THEN WideZero
    ELSE WideAdd(IF Unpack(calls[i]).tag = tag
                 THEN Wide(Unpack(calls[i]).amount) ELSE WideZero,
                 BatchSum(calls, i + 1, tag))

\* every call of the batch has run and succeeded
BatchSucceeded ==
    /\ batch # NoBatch
    /\ batch.done = DOMAIN batch.calls
    /\ last.res.ok

\* C26: when all calls of a batch have run, in whatever order, and all
\* succeeded, the record's balance is its balance at submission plus the
\* batch's deposits minus the batch's withdrawals.
C26_SerializedBatchBalance ==
    BatchSucceeded =>
        WideAdd(Wide(batch.start), BatchSum(batch.calls, 1, "Deposit"))
          = WideAdd(Wide(VaultAmount(accounts[batch.accs[2].addr].data)),
                    BatchSum(batch.calls, 1, "Withdraw"))
\* a batch of three on an empty record that lists a Withdraw first: it
\* succeeded in an order other than the one it was submitted in
C26_Witness ==
    /\ BatchSucceeded
    /\ Len(batch.calls) = 3
    /\ batch.start = U64Zero
    /\ Unpack(batch.calls[1]).tag = "Withdraw"
    /\ Unpack(batch.calls[1]).amount = U64Two

\* the result and effects of the last call
LastOut == Out(last.res, last.st)

\* C27: a call whose data decodes has the result and the effects of exactly
\* the handler of its opcode, run on the accounts as they were, with the
\* call's account list and the fields carried by the data.
C27_MatchingHandlerRuns ==
    last.kind = "call" /\ ~Undecodable(last.data) =>
        LET d == last.data
        IN  /\ d[1] = 0 =>
                 LastOut = InitializeHandler(last.pre, last.accs, d[2])
            /\ d[1] = 1 =>
                 LastOut = DepositHandler(last.pre, last.accs,
                                          FromLeBytes(SubSeq(d, 2, 9)))
            /\ d[1] = 2 =>
                 LastOut = WithdrawHandler(last.pre, last.accs,
                                           FromLeBytes(SubSeq(d, 2, 9)), d[10])
\* a second successful Deposit into a record
C27_Witness ==
    /\ LastCall("Deposit")
    /\ last.res.ok
    /\ LastIx.amount = U64One
    /\ Balance(last.pre, LastVault) = U64One

\* the last call is a Withdraw by the signing owner on its record of an
\* amount within the balance
WithdrawWithinBalance ==
    /\ LastCall("Withdraw")
    /\ LastGuardsPass
    /\ U64Ge(Balance(last.pre, LastVault), LastIx.amount)

\* C28 as claimed: every Withdraw of an amount within the balance, made by
\* the signing owner on its record, succeeds.
C28_WithdrawWithinBalanceSucceeds ==
    WithdrawWithinBalance => last.res.ok

\* C28 as amended: such a Withdraw succeeds unless the owner's lamports plus
\* the amount pass 2^64 - 1; then it fails on the credit and changes nothing.
\* A successful Withdraw of the whole balance leaves balance 0.
C28_WithdrawSucceedsUnlessCreditOverflows ==
    WithdrawWithinBalance =>
        /\ last.res.ok
             = ~AddOverflows(last.pre[LastOwner.addr].lamports, LastIx.amount)
        /\ ~last.res.ok =>
              last.res = Panic("Owner lamport overflow") /\ accounts = last.pre
        /\ last.res.ok /\ LastIx.amount = Balance(last.pre, LastVault) =>
              Balance(accounts, LastVault) = U64Zero
\* the whole of a large balance is withdrawn
C28_Witness ==
    /\ WithdrawWithinBalance
    /\ last.res.ok
    /\ LastIx.amount = U64Big
    /\ Balance(last.pre, LastVault) = U64Big
    /\ Balance(accounts, LastVault) = U64Zero

\* the lamports a record is created with: the rent minimum of LEN bytes
Reserve == MinimumBalance(LEN)

\* C29: every record holds at least the lamports it was created with, in every
\* reachable state, and in particular after every successful Withdraw.
C29_ReserveIsKept ==
    /\ \A a \in Addresses :
           IsRecord(accounts, a) => U64Ge(accounts[a].lamports, Reserve)
    /\ LastCall("Withdraw") /\ last.res.ok =>
           U64Ge(accounts[LastVault].lamports, Reserve)
\* a Withdraw of the whole balance leaves exactly the reserve
C29_Witness ==
    /\ LastCall("Withdraw") /\ last.res.ok
    /\ LastIx.amount = U64One
    /\ Balance(last.pre, LastVault) = U64One
    /\ accounts[LastVault].lamports = Reserve

\* the lamports of two accounts together, as an unbounded sum
LamportsOfBoth(st, a, b) == WideAdd(Wide(st[a].lamports), Wide(st[b].lamports))

\* C30: every call, successful or failed, leaves the sum of the lamports of
\* its first account (owner or payer) and its second account (the record) as
\* it was, and the lamports of every other account unchanged.
C30_CallsConserveLamports ==
    last.kind = "call" =>
        LET owner == last.accs[1].addr
            vault == last.accs[2].addr
        IN  /\ LamportsOfBoth(accounts, owner, vault)
                 = LamportsOfBoth(last.pre, owner, vault)
            /\ \A a \in Addresses \ {owner, vault} :
                   accounts[a].lamports = last.pre[a].lamports
\* an Initialize that funded a new record from the payer
C30_Witness ==
    /\ LastCall("Initialize") /\ last.res.ok
    /\ last.pre[LastVault].lamports = U64Zero
    /\ accounts[LastVault].lamports = Reserve
    /\ accounts[LastOwner.addr].lamports # last.pre[LastOwner.addr].lamports

\* C31: a call whose data decodes returns NotEnoughAccountKeys exactly when
\* its account list has fewer or more than three accounts, whatever the
\* guards would have said of those accounts, and such a call changes nothing.
C31_ExactlyThreeAccounts ==
    last.kind = "call" /\ ~Undecodable(last.data) =>
        /\ (Len(last.accs) # 3) = (last.res = Err("NotEnoughAccountKeys"))
        /\ Len(last.accs) # 3 => last.st = last.pre /\ accounts = last.pre
\* a Deposit with four accounts fails although the signing owner and its
\* record come first
C31_Witness ==
    /\ last.kind = "call" /\ LastIx.ok /\ LastIx.tag = "Deposit"
    /\ Len(last.accs) = 4
    /\ last.accs[1].is_signer
    /\ IsRecord(last.pre, last.accs[2].addr)
    /\ OwnerMatches(last.pre[last.accs[2].addr].data, last.accs[1].addr)
    /\ last.res = Err("NotEnoughAccountKeys")

(***************************************************************************)
(* utils/helpers.rs: the checks and init_if_needed helpers for SPL Token,  *)
(* Token 2022 and associated token accounts. They run inside a transaction *)
(* of a calling program; the System Program, the token programs and the    *)
(* Associated Token Account program are what they call into.               *)
(***************************************************************************)
TOKEN_ID == "token"
TOKEN_2022_PROGRAM_ID == "token2022"
ASSOCIATED_TOKEN_ID == "ata"
OTHER_PROGRAM == "other"

\* pinocchio_token::state::Mint::LEN and TokenAccount::LEN
MINT_LEN == 82
TOKEN_ACCOUNT_LEN == 165
TOKEN_2022_ACCOUNT_DISCRIMINATOR_OFFSET == 165
TOKEN_2022_MINT_DISCRIMINATOR == 1
TOKEN_2022_TOKEN_ACCOUNT_DISCRIMINATOR == 2

\* AccountInfo::is_owned_by
IsOwnedBy(account, program) == account.owner = program

\* bug: the mint check compares with the length of a token account
MintCheckTokenLength(account) ==
    IF ~IsOwnedBy(account, TOKEN_ID) THEN Err("IllegalOwner")
    ELSE IF Len(account.data) # TOKEN_ACCOUNT_LEN THEN Err("InvalidAccountData")
    ELSE Ok

\* Mint::check
MintCheck(account) ==
    IF ~IsOwnedBy(account, TOKEN_ID) THEN Err("IllegalOwner")
    ELSE IF Len(account.data) # MINT_LEN THEN Err("InvalidAccountData")
    ELSE Ok

\* Token::check
TokenCheck(account) ==
    IF ~IsOwnedBy(account, TOKEN_ID) THEN Err("IllegalOwner")
    ELSE IF Len(account.data) # TOKEN_ACCOUNT_LEN THEN Err("InvalidAccountData")
    ELSE Ok

\* Mint2022::check: a mint of another length than the base one must carry the
\* mint discriminator at offset 165
Mint2022Check(account) ==
    IF ~IsOwnedBy(account, TOKEN_2022_PROGRAM_ID) THEN Err("IllegalOwner")
    ELSE IF Len(account.data) # MINT_LEN
         THEN IF Len(account.data) <= TOKEN_2022_ACCOUNT_DISCRIMINATOR_OFFSET
                  THEN Err("InvalidAccountData")
              ELSE IF account.data[TOKEN_2022_ACCOUNT_DISCRIMINATOR_OFFSET + 1]
                          # TOKEN_2022_MINT_DISCRIMINATOR
                  THEN Err("InvalidAccountData")
              ELSE Ok
         ELSE Ok

\* Token2022::check
Token2022Check(account) ==
    IF ~IsOwnedBy(account, TOKEN_2022_PROGRAM_ID) THEN Err("IllegalOwner")
    ELSE IF Len(account.data) # TOKEN_ACCOUNT_LEN
         THEN IF Len(account.data) <= TOKEN_2022_ACCOUNT_DISCRIMINATOR_OFFSET
                  THEN Err("InvalidAccountData")
              ELSE IF account.data[TOKEN_2022_ACCOUNT_DISCRIMINATOR_OFFSET + 1]
                          # TOKEN_2022_TOKEN_ACCOUNT_DISCRIMINATOR
                  THEN Err("InvalidAccountData")
              ELSE Ok
         ELSE Ok

\* bug: the interface sends every account of another program than Token 2022
\* down the SPL Token branch without looking at its owner
MintInterfaceCheckAnyOwner(account) ==
    IF ~IsOwnedBy(account, TOKEN_2022_PROGRAM_ID)
    THEN IF Len(account.data) # MINT_LEN THEN Err("InvalidAccountData")
         ELSE Ok
    ELSE IF Len(account.data) # MINT_LEN
         THEN IF Len(account.data) <= TOKEN_2022_ACCOUNT_DISCRIMINATOR_OFFSET
                  THEN Err("InvalidAccountData")
              ELSE IF account.data[TOKEN_2022_ACCOUNT_DISCRIMINATOR_OFFSET + 1]
                          # TOKEN_2022_MINT_DISCRIMINATOR
                  THEN Err("InvalidAccountData")
              ELSE Ok
         ELSE Ok

\* MintInterface::check
MintInterfaceCheck(account) ==
    IF ~IsOwnedBy(account, TOKEN_2022_PROGRAM_ID)
    THEN IF ~IsOwnedBy(account, TOKEN_ID) THEN Err("IllegalOwner")
         ELSE IF Len(account.data) # MINT_LEN THEN Err("InvalidAccountData")
         ELSE Ok
    ELSE IF Len(account.data) # MINT_LEN
         THEN IF Len(account.data) <= TOKEN_2022_ACCOUNT_DISCRIMINATOR_OFFSET
                  THEN Err("InvalidAccountData")
              ELSE IF account.data[TOKEN_2022_ACCOUNT_DISCRIMINATOR_OFFSET + 1]
                          # TOKEN_2022_MINT_DISCRIMINATOR
                  THEN Err("InvalidAccountData")
              ELSE Ok
         ELSE Ok

\* TokenInterface::check
TokenInterfaceCheck(account) ==
    IF ~IsOwnedBy(account, TOKEN_2022_PROGRAM_ID)
    THEN IF ~IsOwnedBy(account, TOKEN_ID) THEN Err("IllegalOwner")
         ELSE IF Len(account.data) # TOKEN_ACCOUNT_LEN
             THEN Err("InvalidAccountData")
         ELSE Ok
    ELSE IF Len(account.data) # TOKEN_ACCOUNT_LEN
         THEN IF Len(account.data) <= TOKEN_2022_ACCOUNT_DISCRIMINATOR_OFFSET
                  THEN Err("InvalidAccountData")
              ELSE IF account.data[TOKEN_2022_ACCOUNT_DISCRIMINATOR_OFFSET + 1]
                          # TOKEN_2022_TOKEN_ACCOUNT_DISCRIMINATOR
                  THEN Err("InvalidAccountData")
              ELSE Ok
         ELSE Ok

\* what a helper did: its result, the accounts as it left them and the
\* cross-program invocations it made, in order
Ran(r, st, cpi) == [res |-> r, st |-> st, cpi |-> cpi]

\* two wallets, an SPL Token mint and a Token 2022 mint that exist from the
\* start, two unused keypair addresses, and the associated token addresses
HelperWallets == {"A", "B"}
Keypairs == {"N", "T"}
FindProgramAddress(authority, tokenProgram, mint) ==
    CASE authority = "A" /\ tokenProgram = TOKEN_ID /\ mint = "M" -> "TA"
      [] authority = "B" /\ tokenProgram = TOKEN_ID /\ mint = "M" -> "TB"
      [] authority = "A" /\ tokenProgram = TOKEN_2022_PROGRAM_ID /\ mint = "M22" -> "TA22"
      [] OTHER -> NoAddress
AssociatedAddresses == {"TA", "TB", "TA22"}
HelperAddresses ==
    HelperWallets \cup {"M", "M22"} \cup Keypairs \cup AssociatedAddresses

\* the 32 bytes of a wallet or mint address (one distinguishing byte, repeated)
TokenAddressBytes(a) ==
    LET tag == CASE a = "A" -> 65 [] a = "B" -> 66 [] a = "M" -> 77
                 [] a = "M22" -> 78 [] OTHER -> 0
    IN  [i \in 1..32 |-> tag]

\* offsets of the token programs' account layouts
MINT_IS_INITIALIZED_OFFSET == 45
ACCOUNT_MINT_OFFSET == 0
ACCOUNT_OWNER_OFFSET == 32
ACCOUNT_STATE_OFFSET == 108
\* a Token 2022 associated token account: the base account, the account type
\* and the ImmutableOwner extension
EXTENDED_ACCOUNT_LEN == 170

\* an initialized mint of a token program
InitializedMint(st, mint, program) ==
    /\ st[mint].owner = program
    /\ Len(st[mint].data) >= MINT_LEN
    /\ st[mint].data[MINT_IS_INITIALIZED_OFFSET + 1] = 1

\* pinocchio_token InitializeMint2, a call of the SPL Token program: the
\* runtime refuses the write when the account belongs to another program
InitializeMint2(st, mint) ==
    IF Len(st[mint].data) # MINT_LEN THEN Out(Err("InvalidAccountData"), st)
    ELSE IF st[mint].data[MINT_IS_INITIALIZED_OFFSET + 1] # 0
        THEN Out(Err("AlreadyInUse"), st)
    ELSE IF st[mint].owner # TOKEN_ID
        THEN Out(Err("ExternalAccountDataModified"), st)
    ELSE Out(Ok, [st EXCEPT ![mint].data =
            CopyFromSlice(@, MINT_IS_INITIALIZED_OFFSET, <<1>>)])

\* the token account fields written by InitializeAccount3
WriteTokenAccount(data, mint, owner) ==
    CopyFromSlice(
        CopyFromSlice(
            CopyFromSlice(data, ACCOUNT_MINT_OFFSET, TokenAddressBytes(mint)),
            ACCOUNT_OWNER_OFFSET, TokenAddressBytes(owner)),
        ACCOUNT_STATE_OFFSET, <<1>>)

\* pinocchio_token InitializeAccount3, a call of the SPL Token program
InitializeAccount3(st, account, mint, owner) ==
    IF Len(st[account].data) # TOKEN_ACCOUNT_LEN
        THEN Out(Err("InvalidAccountData"), st)
    ELSE IF st[account].data[ACCOUNT_STATE_OFFSET + 1] # 0
        THEN Out(Err("AlreadyInUse"), st)
    ELSE IF ~InitializedMint(st, mint, TOKEN_ID)
        THEN Out(Err("InvalidMint"), st)
    ELSE IF st[account].owner # TOKEN_ID
        THEN Out(Err("ExternalAccountDataModified"), st)
    ELSE Out(Ok, [st EXCEPT ![account].data = WriteTokenAccount(@, mint, owner)])

\* the Associated Token Account program's Create: the account must be the
\* derived address of (wallet, token program, mint) and must not exist yet
AssociatedTokenCreate(st, payer, account, wallet, mint, tokenProgram, signers) ==
    IF FindProgramAddress(wallet, tokenProgram, mint) # account
        THEN Out(Err("InvalidSeeds"), st)
    ELSE IF st[account].owner # SYSTEM_PROGRAM
        THEN Out(Err("IllegalOwner"), st)
    ELSE IF ~InitializedMint(st, mint, tokenProgram)
        THEN Out(Err("InvalidMint"), st)
    ELSE LET space == IF tokenProgram = TOKEN_ID THEN TOKEN_ACCOUNT_LEN
                      ELSE EXTENDED_ACCOUNT_LEN
             created == SystemCreateAccount(st, payer, account,
                            MinimumBalance(space), space, tokenProgram,
                            signers \cup {account})
         IN  IF ~created.res.ok THEN created
             ELSE Out(Ok, [created.st EXCEPT ![account].data =
                     IF space = TOKEN_ACCOUNT_LEN
                     THEN WriteTokenAccount(@, mint, wallet)
                     ELSE CopyFromSlice(WriteTokenAccount(@, mint, wallet),
                              TOKEN_2022_ACCOUNT_DISCRIMINATOR_OFFSET,
                              <<TOKEN_2022_TOKEN_ACCOUNT_DISCRIMINATOR>>)])

\* the account is the initialized associated token account of the wallet for
\* the mint under the token program
IsAssociatedTokenAccount(st, account, wallet, mint, tokenProgram) ==
    /\ account = FindProgramAddress(wallet, tokenProgram, mint)
    /\ st[account].owner = tokenProgram
    /\ Len(st[account].data) >= TOKEN_ACCOUNT_LEN
    /\ Slice(st[account].data, ACCOUNT_MINT_OFFSET, 32) = TokenAddressBytes(mint)
    /\ Slice(st[account].data, ACCOUNT_OWNER_OFFSET, 32) = TokenAddressBytes(wallet)
    /\ st[account].data[ACCOUNT_STATE_OFFSET + 1] = 1

\* Mint::init
MintInit(st, account, payer, signers) ==
    LET created == SystemCreateAccount(st, payer, account,
                       MinimumBalance(MINT_LEN), MINT_LEN, TOKEN_ID, signers)
    IN  IF ~created.res.ok
            THEN Ran(created.res, created.st, <<"CreateAccount">>)
        ELSE LET done == InitializeMint2(created.st, account)
             IN  Ran(done.res, done.st, <<"CreateAccount", "InitializeMint2">>)

\* Mint::init_if_needed
MintInitIfNeeded(st, account, payer, signers) ==
    IF MintCheck(st[account]).ok THEN Ran(Ok, st, <<>>)
    ELSE MintInit(st, account, payer, signers)

\* Token::init
TokenInit(st, account, mint, payer, owner, signers) ==
    LET created == SystemCreateAccount(st, payer, account,
                       MinimumBalance(TOKEN_ACCOUNT_LEN), TOKEN_ACCOUNT_LEN, TOKEN_ID, signers)
    IN  IF ~created.res.ok
            THEN Ran(created.res, created.st, <<"CreateAccount">>)
        ELSE LET done == InitializeAccount3(created.st, account, mint, owner)
             IN  Ran(done.res, done.st, <<"CreateAccount", "InitializeAccount3">>)

\* Token::init_if_needed
TokenInitIfNeeded(st, account, mint, payer, owner, signers) ==
    IF TokenCheck(st[account]).ok THEN Ran(Ok, st, <<>>)
    ELSE TokenInit(st, account, mint, payer, owner, signers)

\* Mint2022::init: the account is created for Token 2022 and initialized
\* through pinocchio_token's InitializeMint2
Mint2022Init(st, account, payer, signers) ==
    LET created == SystemCreateAccount(st, payer, account,
                       MinimumBalance(MINT_LEN), MINT_LEN, TOKEN_2022_PROGRAM_ID, signers)
    IN  IF ~created.res.ok
            THEN Ran(created.res, created.st, <<"CreateAccount">>)
        ELSE LET done == InitializeMint2(created.st, account)
             IN  Ran(done.res, done.st, <<"CreateAccount", "InitializeMint2">>)

\* Mint2022::init_if_needed
Mint2022InitIfNeeded(st, account, payer, signers) ==
    IF Mint2022Check(st[account]).ok THEN Ran(Ok, st, <<>>)
    ELSE Mint2022Init(st, account, payer, signers)

\* Token2022::init
Token2022Init(st, account, mint, payer, owner, signers) ==
    LET created == SystemCreateAccount(st, payer, account,
                       MinimumBalance(TOKEN_ACCOUNT_LEN), TOKEN_ACCOUNT_LEN, TOKEN_2022_PROGRAM_ID, signers)
    IN  IF ~created.res.ok
            THEN Ran(created.res, created.st, <<"CreateAccount">>)
        ELSE LET done == InitializeAccount3(created.st, account, mint, owner)
             IN  Ran(done.res, done.st, <<"CreateAccount", "InitializeAccount3">>)

\* Token2022::init_if_needed
Token2022InitIfNeeded(st, account, mint, payer, owner, signers) ==
    IF Token2022Check(st[account]).ok THEN Ran(Ok, st, <<>>)
    ELSE Token2022Init(st, account, mint, payer, owner, signers)

\* AssociatedToken::check
AssociatedTokenCheck(st, account, authority, mint, tokenProgram) ==
    IF ~TokenCheck(st[account]).ok THEN TokenCheck(st[account])
    ELSE IF FindProgramAddress(authority, tokenProgram, mint) # account
        THEN Err("InvalidSeeds")
    ELSE Ok

\* AssociatedToken::init
AssociatedTokenInit(st, account, mint, payer, owner, tokenProgram, signers) ==
    LET created == AssociatedTokenCreate(st, payer, account, owner, mint,
                       tokenProgram, signers)
    IN  Ran(created.res, created.st, <<"Create">>)

\* AssociatedToken::init_if_needed: the check is made with the payer as the
\* authority of the account
AssociatedTokenInitIfNeeded(st, account, mint, payer, owner, tokenProgram, signers) ==
    IF AssociatedTokenCheck(st, account, payer, mint, tokenProgram).ok
        THEN Ran(Ok, st, <<>>)
    ELSE AssociatedTokenInit(st, account, mint, payer, owner, tokenProgram, signers)

(***************************************************************************)
(* The helpers as a state machine: a calling program runs one helper per   *)
(* transaction and returns its result; other transactions create accounts  *)
(* of any owner, length and discriminator byte, and associated token       *)
(* accounts through the Associated Token Account program.                  *)
(***************************************************************************)
MaxHelperCalls == 1

\* an account's data of the given length with the given byte at offset 165
Shaped(len, byte) ==
    [i \in 1..len |->
        IF i = TOKEN_2022_ACCOUNT_DISCRIMINATOR_OFFSET + 1 THEN byte ELSE 0]
ArrangedOwners == {TOKEN_ID, TOKEN_2022_PROGRAM_ID, OTHER_PROGRAM}
ArrangedLengths == {0, MINT_LEN, TOKEN_ACCOUNT_LEN, TOKEN_ACCOUNT_LEN + 1, EXTENDED_ACCOUNT_LEN}
ArrangedBytes == {0, 1, 2}

HelpersInit ==
    /\ accounts = [a \in HelperAddresses |->
          CASE a = "A" -> [lamports |-> U64Big, owner |-> SYSTEM_PROGRAM, data |-> <<>>]
            [] a = "B" -> [lamports |-> MinimumBalance(EXTENDED_ACCOUNT_LEN),
                           owner |-> SYSTEM_PROGRAM, data |-> <<>>]
            [] a = "M" -> [lamports |-> MinimumBalance(MINT_LEN), owner |-> TOKEN_ID,
                           data |-> CopyFromSlice(Zeroes(MINT_LEN),
                                        MINT_IS_INITIALIZED_OFFSET, <<1>>)]
            [] a = "M22" -> [lamports |-> MinimumBalance(MINT_LEN),
                             owner |-> TOKEN_2022_PROGRAM_ID,
                             data |-> CopyFromSlice(Zeroes(MINT_LEN),
                                          MINT_IS_INITIALIZED_OFFSET, <<1>>)]
            [] OTHER -> [lamports |-> U64Zero, owner |-> SYSTEM_PROGRAM, data |-> <<>>]]
    /\ last = [NoCall EXCEPT !.kind = "none"] @@ [st |-> accounts, pre |-> accounts]
    /\ nCalls = 0
    /\ nAirdrops = 0
    /\ deposited = [a \in Addresses |-> WideZero]
    /\ withdrawn = [a \in Addresses |-> WideZero]
    /\ batch = NoBatch

\* a helper can be called: no call has failed, and the last step was not a
\* reading of the checks
HelperLive == Live /\ last.kind # "check"

Unused(account) ==
    /\ account.owner = SYSTEM_PROGRAM
    /\ account.data = <<>>
    /\ account.lamports = U64Zero

\* another transaction leaves an account of some program at a keypair address
\* (in a behaviour that has no associated token account yet)
Arrange == \E a \in Keypairs, owner \in ArrangedOwners,
              len \in ArrangedLengths, byte \in ArrangedBytes :
    /\ HelperLive
    /\ \A k \in Keypairs \cup AssociatedAddresses : Unused(accounts[k])
    /\ accounts' = [accounts EXCEPT ![a] =
            [lamports |-> MinimumBalance(len), owner |-> owner,
             data |-> Shaped(len, byte)]]
    /\ last' = [kind |-> "arrange", data |-> <<>>, accs |-> <<Meta(a, FALSE)>>,
                res |-> Ok, st |-> accounts', pre |-> accounts]
    /\ UNCHANGED <<nCalls, nAirdrops, deposited, withdrawn, batch>>

\* another transaction, paid by A, creates the associated token account of a
\* wallet through the Associated Token Account program (in a behaviour whose
\* keypair addresses are still unused)
CreateAssociated == \E wallet \in HelperWallets, mint \in {"M", "M22"},
                       tokenProgram \in {TOKEN_ID, TOKEN_2022_PROGRAM_ID} :
    LET account == FindProgramAddress(wallet, tokenProgram, mint)
        out == AssociatedTokenCreate(accounts, "A", account, wallet, mint,
                   tokenProgram, {"A"})
    IN  /\ HelperLive
        /\ account # NoAddress
        /\ \A k \in Keypairs : Unused(accounts[k])
        /\ out.res.ok
        /\ accounts' = out.st
        /\ last' = [kind |-> "create", data |-> <<>>, accs |-> <<Meta(account, FALSE)>>,
                    res |-> Ok, st |-> accounts', pre |-> accounts]
        /\ UNCHANGED <<nCalls, nAirdrops, deposited, withdrawn, batch>>

\* the six checks are applied to one account
CheckAccount == \E a \in HelperAddresses :
    /\ HelperLive
    /\ last' = [kind |-> "check", data |-> <<>>, accs |-> <<Meta(a, FALSE)>>,
                res |-> Ok, st |-> accounts, pre |-> accounts,
                checks |-> [Mint |-> MintCheck(accounts[a]),
                            Token |-> TokenCheck(accounts[a]),
                            Mint2022 |-> Mint2022Check(accounts[a]),
                            Token2022 |-> Token2022Check(accounts[a]),
                            MintInterface |-> MintInterfaceCheck(accounts[a]),
                            TokenInterface |-> TokenInterfaceCheck(accounts[a])]]
    /\ UNCHANGED <<accounts, nCalls, nAirdrops, deposited, withdrawn, batch>>

\* the arguments of a helper call; the payer signs, the account may
HelperArguments(accountAddresses) ==
    {[account |-> a, mint |-> m, payer |-> p, owner |-> o, tokenProgram |-> t,
      signers |-> IF signed THEN {p, a} ELSE {p}] :
        a \in accountAddresses, m \in {"M", "M22"}, p \in HelperWallets,
        o \in HelperWallets, t \in {TOKEN_ID, TOKEN_2022_PROGRAM_ID},
        signed \in BOOLEAN}

\* one init_if_needed helper run on the given accounts
RunHelper(st, helper, x) ==
    CASE helper = "Mint" -> MintInitIfNeeded(st, x.account, x.payer, x.signers)
      [] helper = "Token" ->
            TokenInitIfNeeded(st, x.account, x.mint, x.payer, x.owner, x.signers)
      [] helper = "Mint2022" -> Mint2022InitIfNeeded(st, x.account, x.payer, x.signers)
      [] helper = "Token2022" ->
            Token2022InitIfNeeded(st, x.account, x.mint, x.payer, x.owner, x.signers)
      [] helper = "AssociatedToken" ->
            AssociatedTokenInitIfNeeded(st, x.account, x.mint, x.payer, x.owner,
                                        x.tokenProgram, x.signers)

\* a transaction whose program calls one helper and returns its result
CallHelper(helper, x) ==
    LET out == RunHelper(accounts, helper, x)
    IN  /\ HelperLive
        /\ nCalls < MaxHelperCalls
        /\ accounts' = Commit(accounts, out)
        /\ last' = [kind |-> "helper", data |-> <<>>, accs |-> <<>>,
                    res |-> out.res, st |-> out.st, pre |-> accounts,
                    helper |-> helper, args |-> x, cpi |-> out.cpi]
        /\ nCalls' = IF out.res.ok THEN nCalls + 1 ELSE nCalls
        /\ UNCHANGED <<nAirdrops, deposited, withdrawn, batch>>

\* the arguments that matter to the mint helpers
MintArguments ==
    {x \in HelperArguments(Keypairs) :
        x.mint = "M" /\ x.owner = x.payer /\ x.tokenProgram = TOKEN_ID}
\* the arguments that matter to the token account helpers
TokenArguments ==
    {x \in HelperArguments(Keypairs) : x.tokenProgram = TOKEN_ID}

CallMintInitIfNeeded == \E x \in MintArguments : CallHelper("Mint", x)
CallTokenInitIfNeeded == \E x \in TokenArguments : CallHelper("Token", x)
CallMint2022InitIfNeeded == \E x \in MintArguments : CallHelper("Mint2022", x)
CallToken2022InitIfNeeded == \E x \in TokenArguments : CallHelper("Token2022", x)
CallAssociatedTokenInitIfNeeded ==
    \E x \in HelperArguments(AssociatedAddresses) :
        x.signers = {x.payer} /\ CallHelper("AssociatedToken", x)

HelpersNext ==
    \/ Arrange
    \/ CreateAssociated
    \/ CheckAccount
    \/ CallMintInitIfNeeded
    \/ CallTokenInitIfNeeded
    \/ CallMint2022InitIfNeeded
    \/ CallToken2022InitIfNeeded
    \/ CallAssociatedTokenInitIfNeeded

HelpersSpec == HelpersInit /\ [][HelpersNext]_vars

\* C34: MintInterface::check accepts an account exactly when Mint::check or
\* Mint2022::check accepts it, and TokenInterface::check exactly when
\* Token::check or Token2022::check does.
C34_InterfaceIsEitherProgram ==
    last.kind = "check" =>
        /\ last.checks.MintInterface.ok
             = (last.checks.Mint.ok \/ last.checks.Mint2022.ok)
        /\ last.checks.TokenInterface.ok
             = (last.checks.Token.ok \/ last.checks.Token2022.ok)
\* a Token 2022 mint with extensions is accepted through its discriminator
C34_Witness ==
    /\ last.kind = "check"
    /\ accounts[last.accs[1].addr].owner = TOKEN_2022_PROGRAM_ID
    /\ Len(accounts[last.accs[1].addr].data) = EXTENDED_ACCOUNT_LEN
    /\ last.checks.MintInterface.ok
    /\ ~last.checks.Mint.ok
    /\ ~last.checks.TokenInterface.ok

\* the check and the init of a token helper
MatchingCheck(helper, account) ==
    CASE helper = "Mint" -> MintCheck(account)
      [] helper = "Token" -> TokenCheck(account)
      [] helper = "Mint2022" -> Mint2022Check(account)
      [] helper = "Token2022" -> Token2022Check(account)
MatchingInit(st, helper, x) ==
    CASE helper = "Mint" -> MintInit(st, x.account, x.payer, x.signers)
      [] helper = "Token" -> TokenInit(st, x.account, x.mint, x.payer, x.owner, x.signers)
      [] helper = "Mint2022" -> Mint2022Init(st, x.account, x.payer, x.signers)
      [] helper = "Token2022" ->
            Token2022Init(st, x.account, x.mint, x.payer, x.owner, x.signers)
TokenHelpers == {"Mint", "Token", "Mint2022", "Token2022"}
\* the last step was a call of one of the four token helpers
LastTokenHelper == last.kind = "helper" /\ last.helper \in TokenHelpers
LastRan == Ran(last.res, last.st, last.cpi)

\* C33: an init_if_needed of Mint, Token, Mint2022 or Token2022 on an account
\* that passes the matching check succeeds without any invocation or change;
\* on any other account it is the matching init; and the same call made again
\* right after it has no further effect: after a success it succeeds without
\* any invocation, after a failure it fails the same way on the same accounts.
C33_InitIfNeededIsIdempotent ==
    LastTokenHelper =>
        LET x == last.args
            again == RunHelper(accounts, last.helper, x)
        IN  /\ MatchingCheck(last.helper, last.pre[x.account]).ok =>
                   LastRan = Ran(Ok, last.pre, <<>>) /\ accounts = last.pre
            /\ ~MatchingCheck(last.helper, last.pre[x.account]).ok =>
                   /\ LastRan = MatchingInit(last.pre, last.helper, x)
                   /\ last.cpi[1] = "CreateAccount"
            /\ last.res.ok => again = Ran(Ok, accounts, <<>>)
            /\ ~last.res.ok => again = LastRan /\ accounts = last.pre
\* Mint::init_if_needed created and initialized a mint
C33_Witness ==
    /\ LastTokenHelper
    /\ last.helper = "Mint"
    /\ last.res.ok
    /\ last.cpi = <<"CreateAccount", "InitializeMint2">>
    /\ Unused(last.pre[last.args.account])
    /\ InitializedMint(accounts, last.args.account, TOKEN_ID)

\* the last step was AssociatedToken::init_if_needed on an account that
\* already was the associated SPL Token account of the owner for the mint
LastOnExistingAssociated ==
    /\ last.kind = "helper"
    /\ last.helper = "AssociatedToken"
    /\ last.args.tokenProgram = TOKEN_ID
    /\ IsAssociatedTokenAccount(last.pre, last.args.account, last.args.owner,
                                last.args.mint, last.args.tokenProgram)

\* C32: AssociatedToken::init_if_needed on the existing associated token
\* account of the owner succeeds without any invocation or change, whoever
\* pays.
C32_ExistingAssociatedIsKept ==
    LastOnExistingAssociated =>
        LastRan = Ran(Ok, last.pre, <<>>) /\ accounts = last.pre
=============================================================================
